---- MODULE Spec2Model ----
(***************************************************************************)
(* net_syslog: per-device syslog aggregation, novelty annotation against   *)
(* a per-device sqlite history, exception filtering and report assembly.   *)
(*                                                                         *)
(* Strings are sequences of character codes, so that string comparison,    *)
(* concatenation and sorting are the ones Python performs.  Time is        *)
(* counted in ticks: Python's datetime.today() has tick resolution,        *)
(* sqlite's datetime('now','localtime') keeps whole units of Micro ticks,  *)
(* and a day of timedelta(days=...) is one such unit.                      *)
(***************************************************************************)
EXTENDS Integers, Sequences, FiniteSets, TLC

(* ------------------------------ bounds -------------------------------- *)
MaxRuns == 2
MaxClock == 3
MaxLines == 2
MaxDevices == 2
MaxLongLines == 4
MaxAggLines == 4
Micro == 2

(* ------------------------- program constants -------------------------- *)
DAYS_FOR_CODE == 1

(* " !!!ATTENTION!!!" appended to the level of a coded entry *)
ATTENTION_SUFFIX == <<32, 33, 33, 33, 65, 84, 84, 69, 78, 84, 73, 79, 78, 33, 33, 33>>
(* "!!!ATTENTION!!! " put in front of the key of a count-only entry *)
ATTENTION_PREFIX == <<33, 33, 33, 65, 84, 84, 69, 78, 84, 73, 79, 78, 33, 33, 33, 32>>
(* "-" placeholder of the level and code columns *)
PLACEHOLDER == <<45>>

(* ------------------------------ strings ------------------------------- *)
(* a < b for Python str (and for lists of ints): lexicographic, a proper   *)
(* prefix is smaller                                                       *)
StrLess(a, b) ==
    \E i \in 1..Len(b) :
        /\ \A j \in 1..(i - 1) : j <= Len(a) /\ a[j] = b[j]
        /\ (i > Len(a) \/ (i - 1 < Len(a) /\ a[i] < b[i]))

(* ------------------------- the result dict ---------------------------- *)
(* A CPython dict: an insertion-ordered entry array with dummies left by   *)
(* deletions, and the number of entry slots still usable before the next   *)
(* insertion compacts the array.                                           *)
Dummy == [key |-> <<>>, val |-> <<>>, live |-> FALSE]

EmptyDict == [ent |-> <<>>, usable |-> 0]

Used(d) == Cardinality({p \in 1..Len(d.ent) : d.ent[p].live})

Find(d, k) ==
    LET ps == {p \in 1..Len(d.ent) : d.ent[p].live /\ d.ent[p].key = k}
    IN  IF ps = {} THEN 0 ELSE CHOOSE p \in ps : TRUE

HasKey(d, k) == Find(d, k) # 0

Get(d, k) == d.ent[Find(d, k)].val

Keys(d) == {d.ent[p].key : p \in {q \in 1..Len(d.ent) : d.ent[q].live}}

RECURSIVE KeySize(_, _)
KeySize(n, min) == IF n >= min THEN n ELSE KeySize(2 * n, min)

RECURSIVE Compact(_)
Compact(es) ==
    IF es = <<>> THEN <<>>
    ELSE IF Head(es).live THEN <<Head(es)>> \o Compact(Tail(es))
         ELSE Compact(Tail(es))

Resize(d) ==
    LET live == Compact(d.ent)
    IN  [ent |-> live, usable |-> (2 * KeySize(8, 3 * Len(live))) \div 3 - Len(live)]

(* d[k] = v *)
DictSet(d, k, v) ==
    IF HasKey(d, k)
    THEN [d EXCEPT !.ent[Find(d, k)].val = v]
    ELSE LET r == IF d.usable <= 0 THEN Resize(d) ELSE d
         IN  [ent |-> Append(r.ent, [key |-> k, val |-> v, live |-> TRUE]),
              usable |-> r.usable - 1]

(* del d[k] / d.pop(k): the slot becomes a dummy *)
DictDel(d, k) == [d EXCEPT !.ent[Find(d, k)] = Dummy]

(* ------------------------------- lines -------------------------------- *)
(* A line of a log file with the outcome of REGEX.search on it. *)
Coded(level, code, message) ==
    [match |-> TRUE, level |-> level, code |-> code, message |-> message, line |-> <<>>]
Unparsed(text) ==
    [match |-> FALSE, level |-> <<>>, code |-> <<>>, message |-> <<>>, line |-> text]

(* "%A-1-X", "%B-1-X" *)
CodeA == <<37, 65, 45, 49, 45, 88>>
CodeB == <<37, 66, 45, 49, 45, 88>>
(* "a.b", "a.c" *)
LevelB == <<97, 46, 98>>
LevelC == <<97, 46, 99>>
(* "m", "n" *)
MsgM == <<109>>
MsgN == <<110>>
(* "x\n" *)
RawX == <<120, 10>>

(* AddLine with the level and message of a repeated code taken again *)
AddLine_LastWins(d, ln) ==
    IF ln.match
    THEN IF HasKey(d, ln.code)
         THEN DictSet(d, ln.code, <<Get(d, ln.code)[1] + 1, ln.level, ln.message>>)
         ELSE DictSet(d, ln.code, <<1, ln.level, ln.message>>)
    ELSE IF HasKey(d, ln.line)
         THEN DictSet(d, ln.line, [Get(d, ln.line) EXCEPT ![1] = @ + 1])
         ELSE DictSet(d, ln.line, <<1>>)

(* one step of the line loop of parse_log *)
AddLine(d, ln) ==
    IF ln.match
    THEN IF HasKey(d, ln.code)
         THEN DictSet(d, ln.code, [Get(d, ln.code) EXCEPT ![1] = @ + 1])
         ELSE DictSet(d, ln.code, <<1, ln.level, ln.message>>)
    ELSE IF HasKey(d, ln.line)
         THEN DictSet(d, ln.line, [Get(d, ln.line) EXCEPT ![1] = @ + 1])
         ELSE DictSet(d, ln.line, <<1>>)

RECURSIVE Aggregate(_, _)
Aggregate(d, lines) ==
    IF lines = <<>> THEN d ELSE Aggregate(AddLine(d, Head(lines)), Tail(lines))

(* ----------------------------- timestamps ----------------------------- *)
(* str(datetime): "<units>" when the sub-unit part is zero, else           *)
(* "<units>.<fraction>"; compared as strings                               *)
FormatPy(t) == IF t % Micro = 0 THEN <<t \div Micro>> ELSE <<t \div Micro, t % Micro>>
(* sqlite datetime('now','localtime'): whole units only *)
FormatSql(t) == <<t \div Micro>>

(* ------------------------------ devices ------------------------------- *)
(* "r-1", "r_1", "s1" *)
DevR1 == <<114, 45, 49>>
DevR_1 == <<114, 95, 49>>
DevS1 == <<115, 49>>
(* the usual fleet, and two devices whose names differ in '-' and '_' only *)
Devices == {DevR1, DevS1}
Twins == {DevR1, DevR_1}

(* device['name'].replace('-', '_') *)
TableName(name) == [p \in 1..Len(name) |-> IF name[p] = 45 THEN 95 ELSE name[p]]

(* the CREATE table statements written by create_schema, in inventory order *)
create_schema(inv) == [p \in 1..Len(inv) |-> TableName(inv[p])]

(* conn.executescript: statements run in order and each one is committed;  *)
(* CREATE table of an existing table raises OperationalError               *)
RECURSIVE ExecuteScript(_, _)
ExecuteScript(tables, schema) ==
    IF schema = <<>> THEN [db |-> tables, ok |-> TRUE]
    ELSE IF Head(schema) \in DOMAIN tables THEN [db |-> tables, ok |-> FALSE]
    ELSE ExecuteScript([t \in DOMAIN tables \cup {Head(schema)} |->
                           IF t = Head(schema) THEN <<>> ELSE tables[t]],
                       Tail(schema))

(* create_db with the failure of a statement of the schema passed over *)
create_db_IgnoresFailure(exists, tables, schema) ==
    IF exists THEN [db |-> tables, ok |-> TRUE]
    ELSE [db |-> ExecuteScript(tables, schema).db, ok |-> TRUE]

(* create_db: the schema is executed only when the database file is absent *)
create_db(exists, tables, schema) ==
    IF exists THEN [db |-> tables, ok |-> TRUE] ELSE ExecuteScript(tables, schema)

(* ------------------------------ inputs -------------------------------- *)
(* open(temp): the file is missing, or it yields its lines *)
NotFound == [found |-> FALSE, lines |-> <<>>]
LogFile(lines) == [found |-> TRUE, lines |-> lines]
(* the table the queries of compare_with_db name: missing, or its rows *)
NoTable == [exists |-> FALSE, rows |-> <<>>]
Table(rows) == [exists |-> TRUE, rows |-> rows]

RECURSIVE SeqsUpTo(_, _)
SeqsUpTo(S, n) ==
    IF n = 0 THEN {<<>>}
    ELSE LET shorter == SeqsUpTo(S, n - 1)
         IN  shorter \cup {Append(s, x) : s \in {t \in shorter : Len(t) = n - 1}, x \in S}

Distinct(s) == \A p, q \in 1..Len(s) : p # q => s[p] # s[q]

InventoriesOf(D) == {inv \in SeqsUpTo(D, MaxDevices) : inv # <<>> /\ Distinct(inv)}
Inventories == InventoriesOf(Devices)

Lines == {Coded(LevelB, CodeA, MsgM), Coded(LevelB, CodeB, MsgM),
          Coded(LevelC, CodeA, MsgN), Unparsed(RawX)}

(* longer files, in which a line may already begin with the attention      *)
(* prefix                                                                  *)
LongLines == {Coded(LevelB, CodeA, MsgM), Coded(LevelB, CodeB, MsgM),
              Unparsed(RawX), Unparsed(ATTENTION_PREFIX \o RawX)}

LongLogFiles == {LogFile(l) : l \in SeqsUpTo(LongLines, MaxLongLines)}

(* files for the fold of parse_log: a code on lines of different level and *)
(* message, and a last line without newline whose text is that code        *)
AggLines == {Coded(LevelB, CodeA, MsgM), Coded(LevelC, CodeA, MsgN),
             Coded(LevelB, CodeB, MsgM), Unparsed(RawX), Unparsed(CodeA)}

AggLogFiles == {LogFile(l) : l \in SeqsUpTo(AggLines, MaxAggLines)}

LogFiles == {NotFound} \cup {LogFile(l) : l \in SeqsUpTo(Lines, MaxLines)}

(* what open(EXCEPTIONS) and yaml.safe_load give *)
ExcAbsent == [kind |-> "absent", codes |-> {}]
ExcMalformed == [kind |-> "malformed", codes |-> {}]
ExcNone == [kind |-> "none", codes |-> {}]
ExcList(S) == [kind |-> "list", codes |-> S]
ExcUnread == [kind |-> "unread", codes |-> {}]
ExcFiles == {ExcAbsent, ExcMalformed, ExcNone, ExcList({CodeA})}

(* ------------------------------- state -------------------------------- *)
VARIABLES
    clock,      \* wall clock, in ticks
    dbFile,     \* os.path.exists(DB_NAME)
    db,         \* committed tables: table name -> (code -> last_active)
    pc,         \* "idle", "device", "loop", "annotated", "send", "crashed"
    runs,       \* runs started so far
    inventory,  \* the inventory of the current run
    dev,        \* index of the device format_log is at
    result,     \* the dict built by parse_log and annotated by compare_with_db
    it,         \* the iterator of "for code in result"
    now,        \* datetime.today() taken by compare_with_db
    conn,       \* the device's table inside the open transaction
    body,       \* one section per device handled: the device and what it got
    column,     \* the sorted rows of the last table appended to body
    sent,       \* the report handed to send_email
    error,      \* the exception that ended the run, if one did
    log,        \* what open(temp) gave for the device at hand
    compared,   \* the dict compare_with_db returned, before exception() edits it
    exc         \* what the device's call of exception() loaded

vars == <<clock, dbFile, db, pc, runs, inventory, dev, result, it, now, conn, body,
          column, sent, error, log, compared, exc>>

NoIter == [pos |-> 0, len |-> 0, used |-> 0]

Init ==
    /\ clock = 0
    /\ dbFile = FALSE
    /\ db = <<>>
    /\ pc = "idle"
    /\ runs = 0
    /\ inventory = <<>>
    /\ dev = 0
    /\ result = EmptyDict
    /\ it = NoIter
    /\ now = 0
    /\ conn = NoTable
    /\ body = <<>>
    /\ column = <<>>
    /\ sent = FALSE
    /\ error = "none"
    /\ log = NotFound
    /\ compared = EmptyDict
    /\ exc = ExcUnread

(* --------------------------- compare_with_db -------------------------- *)
week_ago(t) == t - DAYS_FOR_CODE * Micro

(* next(iter(result)): RuntimeError when the dict changed size or when an  *)
(* entry turns up after as many keys as the dict had were handed out       *)
IterNext(d, i) ==
    LET rest == {p \in (i.pos + 1)..Len(d.ent) : d.ent[p].live}
        p == CHOOSE q \in rest : \A r \in rest : q <= r
    IN  IF i.used # Used(d) THEN [kind |-> "RuntimeError", key |-> <<>>, it |-> i]
        ELSE IF rest = {} THEN [kind |-> "StopIteration", key |-> <<>>, it |-> i]
        ELSE IF i.len = 0 THEN [kind |-> "RuntimeError", key |-> <<>>, it |-> i]
        ELSE [kind |-> "key", key |-> d.ent[p].key,
              it |-> [pos |-> p, len |-> i.len - 1, used |-> i.used]]

(* Attention with the renamed key added but the old key left in place *)
Attention_KeepsOldKey(d, code) ==
    LET val == Get(d, code)
    IN  IF Len(val) >= 2
        THEN DictSet(d, code, [val EXCEPT ![2] = @ \o ATTENTION_SUFFIX])
        ELSE DictSet(d, ATTENTION_PREFIX \o code, val)

(* result[code][1] += " !!!ATTENTION!!!", or on IndexError                 *)
(* result["!!!ATTENTION!!! " + code] = result.pop(code)                    *)
Attention(d, code) ==
    LET val == Get(d, code)
    IN  IF Len(val) >= 2
        THEN DictSet(d, code, [val EXCEPT ![2] = @ \o ATTENTION_SUFFIX])
        ELSE DictSet(DictDel(d, code), ATTENTION_PREFIX \o code, val)

(* if check_result: if str(week_ago) > check_result[0] ... else: ...       *)
NeedsAttention(rows, code, t) ==
    IF code \in DOMAIN rows THEN StrLess(rows[code], FormatPy(week_ago(t))) ELSE TRUE

(* Replace with the record stamped by a clock that runs backwards *)
Replace_ClockBackwards(rows, code, t) ==
    [c \in DOMAIN rows \cup {code} |-> IF c = code THEN FormatSql(MaxClock - t) ELSE rows[c]]

(* INSERT OR REPLACE into <table> values (code, datetime('now','localtime')) *)
Replace(rows, code, t) ==
    [c \in DOMAIN rows \cup {code} |-> IF c = code THEN FormatSql(t) ELSE rows[c]]

(* --------------------------- exception -------------------------------- *)
RECURSIVE DeleteAll(_, _)
DeleteAll(d, ks) ==
    IF ks = {} THEN d
    ELSE LET k == CHOOSE x \in ks : TRUE IN DeleteAll(DictDel(d, k), ks \ {k})

(* exception with the membership test failing for every code *)
exception_DeletesNothing(d, loaded) == d

(* for code in list(result): if code in exc: del result[code]; a TypeError *)
(* of "code in exc" (exc is None) is swallowed                             *)
exception(d, loaded) ==
    IF loaded.kind = "list" THEN DeleteAll(d, Keys(d) \cap loaded.codes) ELSE d

(* ----------------------------- format_log ----------------------------- *)
Row(e) ==
    IF Len(e.val) = 3 THEN <<e.val[1], e.val[2], e.key, e.val[3]>>
    ELSE <<e.val[1], PLACEHOLDER, PLACEHOLDER, e.key>>

(* list comparison of two rows [numb, level, code, message] *)
RowLess(r, s) ==
    \/ r[1] < s[1]
    \/ r[1] = s[1] /\ StrLess(r[2], s[2])
    \/ r[1] = s[1] /\ r[2] = s[2] /\ StrLess(r[3], s[3])
    \/ r[1] = s[1] /\ r[2] = s[2] /\ r[3] = s[3] /\ StrLess(r[4], s[4])

RECURSIVE Insert(_, _)
Insert(r, sorted) ==
    IF sorted = <<>> THEN <<r>>
    ELSE IF RowLess(Head(sorted), r) THEN <<r>> \o sorted
    ELSE <<Head(sorted)>> \o Insert(r, Tail(sorted))

(* column.sort(reverse=True) *)
RECURSIVE SortReverse(_)
SortReverse(rows) ==
    IF rows = <<>> THEN <<>> ELSE Insert(Head(rows), SortReverse(Tail(rows)))

Column(d) == LET es == Compact(d.ent) IN SortReverse([p \in 1..Len(es) |-> Row(es[p])])

(* ------------------------------ actions ------------------------------- *)
Section(kind) == [device |-> inventory[dev], kind |-> kind]

(* NextDevice with the device loop left after the first device *)
NextDevice_LeavesLoop == "send"

NextDevice == IF dev < Len(inventory) THEN "device" ELSE "send"

(* main up to the call of format_log: inventory, schema, database *)
main(inv) ==
    /\ pc \in {"idle", "crashed"}
    /\ runs < MaxRuns
    /\ LET made == create_db(dbFile, db, create_schema(inv))
       IN  /\ db' = made.db
           /\ pc' = IF made.ok THEN "device" ELSE "crashed"
           /\ error' = IF made.ok THEN "none" ELSE "OperationalError"
    /\ dbFile' = TRUE
    /\ runs' = runs + 1
    /\ inventory' = inv
    /\ dev' = 1
    /\ body' = <<>>
    /\ column' = <<>>
    /\ sent' = FALSE
    /\ result' = EmptyDict
    /\ it' = NoIter
    /\ conn' = NoTable
    /\ log' = NotFound
    /\ compared' = EmptyDict
    /\ exc' = ExcUnread
    /\ now' = 0
    /\ UNCHANGED clock

(* parse_log up to the loop of compare_with_db, or the FileNotFoundError   *)
(* of open(temp) caught by format_log                                      *)
parse_log(file) ==
    /\ pc = "device"
    /\ IF file.found
       THEN LET d == Aggregate(EmptyDict, file.lines)
                t == TableName(inventory[dev])
            IN  /\ result' = d
                /\ now' = clock
                /\ conn' = IF t \in DOMAIN db THEN Table(db[t]) ELSE NoTable
                /\ it' = [pos |-> 0, len |-> Used(d), used |-> Used(d)]
                /\ pc' = "loop"
                /\ column' = <<>>
                /\ UNCHANGED <<dev, body>>
       ELSE /\ body' = Append(body, Section("not found"))
            /\ column' = <<>>
            /\ dev' = dev + 1
            /\ pc' = NextDevice
            /\ result' = EmptyDict
            /\ now' = 0
            /\ UNCHANGED <<it, conn>>
    /\ log' = file
    /\ compared' = EmptyDict
    /\ exc' = ExcUnread
    /\ UNCHANGED <<clock, dbFile, db, runs, inventory, sent, error>>

Crash(e) ==
    /\ pc' = "crashed"
    /\ error' = e
    /\ result' = EmptyDict
    /\ it' = NoIter
    /\ conn' = NoTable

(* one turn of "for code in result": the turn that ends the loop, the one  *)
(* that raises (the transaction is rolled back), or the body for one key   *)
compare_with_db ==
    /\ pc = "loop"
    /\ LET n == IterNext(result, it)
       IN  IF n.kind = "StopIteration"
           THEN /\ pc' = "annotated"
                /\ compared' = result
                /\ UNCHANGED <<result, it, conn, error>>
           ELSE IF n.kind = "RuntimeError"
           THEN Crash("RuntimeError") /\ UNCHANGED compared
           ELSE IF ~conn.exists
           THEN Crash("OperationalError") /\ UNCHANGED compared
           ELSE /\ conn' = Table(Replace(conn.rows, n.key, clock))
                /\ result' = IF NeedsAttention(conn.rows, n.key, now)
                             THEN Attention(result, n.key) ELSE result
                /\ it' = n.it
                /\ pc' = "loop"
                /\ UNCHANGED <<compared, error>>
    /\ UNCHANGED <<clock, dbFile, db, runs, inventory, dev, now, body, column, sent, log,
                   exc>>

(* the end of compare_with_db (commit), exception, and the rest of the     *)
(* device's turn of format_log                                             *)
format_log(file) ==
    /\ pc = "annotated"
    /\ db' = IF conn.exists
             THEN [db EXCEPT ![TableName(inventory[dev])] = conn.rows] ELSE db
    /\ exc' = file
    /\ IF file.kind = "malformed"
       THEN /\ Crash("YAMLError")
            /\ UNCHANGED <<dev, body, column>>
       ELSE /\ IF file.kind = "absent"
               THEN /\ body' = Append(body, Section("not found"))
                    /\ column' = <<>>
                    /\ result' = result
               ELSE /\ body' = Append(body, Section("table"))
                    /\ column' = Column(exception(result, file))
                    /\ result' = exception(result, file)
            /\ dev' = dev + 1
            /\ pc' = NextDevice
            /\ it' = NoIter
            /\ conn' = NoTable
            /\ UNCHANGED error
    /\ UNCHANGED <<clock, dbFile, runs, inventory, now, sent, log, compared>>

send_email ==
    /\ pc = "send"
    /\ pc' = "idle"
    /\ sent' = TRUE
    /\ result' = EmptyDict
    /\ column' = <<>>
    /\ log' = NotFound
    /\ compared' = EmptyDict
    /\ exc' = ExcUnread
    /\ now' = 0
    /\ UNCHANGED <<clock, dbFile, db, runs, inventory, dev, it, conn, body, error>>

Tick ==
    /\ pc \in {"idle", "crashed", "loop"}
    /\ clock < MaxClock
    /\ clock' = clock + 1
    /\ UNCHANGED <<dbFile, db, pc, runs, inventory, dev, result, it, now, conn, body,
                   column, sent, error, log, compared, exc>>

Next ==
    \/ \E inv \in Inventories : main(inv)
    \/ \E file \in LogFiles : parse_log(file)
    \/ compare_with_db
    \/ \E file \in ExcFiles : format_log(file)
    \/ send_email
    \/ Tick

Spec == Init /\ [][Next]_vars

(* the same program run on an inventory of the twin devices *)
NextTwins ==
    \/ \E inv \in InventoriesOf(Twins) : main(inv)
    \/ \E file \in LogFiles : parse_log(file)
    \/ compare_with_db
    \/ \E file \in ExcFiles : format_log(file)
    \/ send_email
    \/ Tick

SpecTwins == Init /\ [][NextTwins]_vars

(* one device, longer log files, an empty exception file *)
NextLong ==
    \/ main(<<DevS1>>)
    \/ \E file \in LongLogFiles : parse_log(file)
    \/ compare_with_db
    \/ format_log(ExcNone)
    \/ send_email
    \/ Tick

SpecLong == Init /\ [][NextLong]_vars

(* one device at one moment: the fold of parse_log over the files above *)
NextAgg ==
    \/ main(<<DevS1>>)
    \/ \E file \in AggLogFiles : parse_log(file)
    \/ compare_with_db
    \/ format_log(ExcNone)
    \/ send_email

SpecAgg == Init /\ [][NextAgg]_vars

(* inventories drawn from all three devices, at one moment *)
NextStore ==
    \/ \E inv \in InventoriesOf(Devices \cup Twins) : main(inv)
    \/ \E file \in LogFiles : parse_log(file)
    \/ compare_with_db
    \/ \E file \in ExcFiles : format_log(file)
    \/ send_email

SpecStore == Init /\ [][NextStore]_vars

(* the twin devices with an exception file that is always there and empty, *)
(* so that the notice of a section tells of a missing log file             *)
NextGap ==
    \/ \E inv \in InventoriesOf(Twins) : main(inv)
    \/ \E file \in LogFiles : parse_log(file)
    \/ compare_with_db
    \/ format_log(ExcNone)
    \/ send_email
    \/ Tick

SpecGap == Init /\ [][NextGap]_vars

(* one device, the longer log files, an exception file that is empty or    *)
(* lists a code                                                            *)
NextSuppressed ==
    \/ main(<<DevS1>>)
    \/ \E file \in LongLogFiles : parse_log(file)
    \/ compare_with_db
    \/ \E file \in {ExcNone, ExcList({CodeA})} : format_log(file)
    \/ send_email
    \/ Tick

SpecSuppressed == Init /\ [][NextSuppressed]_vars

(* ------------------------- reading the state -------------------------- *)
EndsWith(s, suffix) ==
    Len(s) >= Len(suffix) /\ SubSeq(s, Len(s) - Len(suffix) + 1, Len(s)) = suffix

StartsWith(s, prefix) == Len(s) >= Len(prefix) /\ SubSeq(s, 1, Len(prefix)) = prefix

(* the aggregated mapping of the device at hand, as parse_log built it *)
Aggregated == Aggregate(EmptyDict, log.lines)

CodedKeys(d) == {k \in Keys(d) : Len(Get(d, k)) = 3}
CountOnlyKeys(d) == {k \in Keys(d) : Len(Get(d, k)) = 1}

(* a coded entry carries the attention marker *)
Flagged(d, k) == HasKey(d, k) /\ Len(Get(d, k)) = 3 /\ EndsWith(Get(d, k)[2], ATTENTION_SUFFIX)

(* the committed table of the device at hand: during a pass it is what the *)
(* store held before the pass wrote anything                               *)
Held == IF TableName(inventory[dev]) \in DOMAIN db THEN db[TableName(inventory[dev])] ELSE <<>>

(* the stored time of a record, in ticks *)
TicksOf(stamp) == stamp[1] * Micro

(* C1: when the loop of compare_with_db has ended, every coded event of    *)
(* the aggregated mapping is flagged exactly when the store held no record *)
(* for it before the pass or held a time older than now - W                *)
C1_FlagIffNewOrStale ==
    pc = "annotated" =>
        \A c \in CodedKeys(Aggregated) :
            Flagged(compared, c) <=>
                (c \notin DOMAIN Held \/ TicksOf(Held[c]) < now - DAYS_FOR_CODE * Micro)

(* C2: when a device's pass completes, the commit leaves every code of the *)
(* device's log with a record stamped with a time of this pass             *)
C2_RecordRefreshed ==
    [][pc = "annotated" /\ pc' # "annotated" =>
          \A c \in CodedKeys(Aggregated) :
              /\ TableName(inventory[dev]) \in DOMAIN db'
              /\ c \in DOMAIN db'[TableName(inventory[dev])]
              /\ \E t \in now..clock : db'[TableName(inventory[dev])][c] = FormatSql(t)]_vars

(* the pass of the device at hand is over: its loop ended, or an exception *)
(* left the loop and took the run with it                                  *)
PassOver == pc = "annotated" \/ (pc = "crashed" /\ error = "RuntimeError")

Window == DAYS_FOR_CODE * Micro

(* C3: a run on a store with no record for the codes of the device's log   *)
(* flags every one of them; a run that finds every one of them recorded    *)
(* within the window, as a run on the same log a moment ago leaves them,   *)
(* flags none                                                              *)
C3_NewThenKnown ==
    LET codes == CodedKeys(Aggregated)
    IN  PassOver /\ codes # {} =>
            /\ (\A c \in codes : c \notin DOMAIN Held) =>
                   pc = "annotated" /\ \A c \in codes : Flagged(compared, c)
            /\ (\A c \in codes : c \in DOMAIN Held /\ TicksOf(Held[c]) >= now - Window) =>
                   pc = "annotated" /\ \A c \in codes : ~Flagged(compared, c)

(* C4 as the specification states it: an unparsed-line identity is never   *)
(* recorded and keeps its key and its bare count through the pass          *)
C4_UnparsedUntouched ==
    pc \in {"loop", "annotated"} =>
        \A r \in CountOnlyKeys(Aggregated) :
            /\ HasKey(result, r) /\ Get(result, r) = Get(Aggregated, r)
            /\ conn.exists =>
                   /\ r \in DOMAIN conn.rows <=> r \in DOMAIN Held
                   /\ r \in DOMAIN Held => conn.rows[r] = Held[r]

(* C4 amended: at its turn of the loop an unparsed-line identity is looked *)
(* up and recorded like a code; with no record or a stale one its key is   *)
(* renamed with the attention prefix, its bare count kept, and with a      *)
(* record inside the window the entry is left as it is                     *)
C4_UnparsedAnnotated ==
    [][pc = "loop" /\ pc' = "loop" /\ it' # it =>
          LET k == result.ent[it'.pos].key
              renamed == ATTENTION_PREFIX \o k
          IN  Len(Get(result, k)) = 1 =>
                  /\ conn'.rows[k] = FormatSql(clock)
                  /\ IF k \notin DOMAIN conn.rows \/ TicksOf(conn.rows[k]) < now - Window
                     THEN /\ ~HasKey(result', k)
                          /\ HasKey(result', renamed)
                          /\ Get(result', renamed) = Get(result, k)
                     ELSE result' = result]_vars

(* a pass that ended with an unparsed line of the log recorded and renamed *)
C4_Witness ==
    /\ pc = "annotated"
    /\ \E r \in CountOnlyKeys(Aggregated) :
           /\ r \in DOMAIN conn.rows
           /\ ~HasKey(compared, r)
           /\ HasKey(compared, ATTENTION_PREFIX \o r)

(* ------------------------ the device's report ------------------------- *)
(* the identity a row stands for: its code, or the message column of a    *)
(* row whose level and code are placeholders                               *)
RowIdentity(row) == IF row[3] = PLACEHOLDER THEN row[4] ELSE row[3]

RowIdentities == {RowIdentity(column[p]) : p \in 1..Len(column)}

LastSection == body[Len(body)]

(* C5: a device's table holds no row for a member of the exception list,   *)
(* flagged or not, and a row for every other entry of the annotated dict   *)
C5_ExceptionsFiltered ==
    exc.kind = "list" =>
        /\ LastSection.kind = "table"
        /\ RowIdentities \cap exc.codes = {}
        /\ Keys(compared) \ exc.codes \subseteq RowIdentities
        /\ Len(column) = Cardinality(Keys(compared) \ exc.codes)

(* a flagged code of the exception list was dropped and another entry kept *)
C5_Witness ==
    /\ exc.kind = "list"
    /\ \E c \in exc.codes : Flagged(compared, c)
    /\ Len(column) >= 1

(* C6: an exception file that is absent, empty or malformed does not end   *)
(* the run, and the device gets a table with a row for every entry of its  *)
(* annotated dict                                                          *)
C6_LoadFailureSuppressesNothing ==
    exc.kind \in {"absent", "none", "malformed"} =>
        /\ pc # "crashed"
        /\ LastSection.kind = "table"
        /\ Keys(compared) = RowIdentities
        /\ Len(column) = Used(compared)

(* C7: a missing log file gives the device the notice and nothing else,    *)
(* the run goes on to the next device, and a run that reaches send_email   *)
(* has one section per device of the inventory, in inventory order         *)
C7_MissingLogScoped ==
    /\ [](/\ Len(body) <= Len(inventory)
          /\ \A p \in 1..Len(body) : body[p].device = inventory[p]
          /\ pc = "send" \/ sent => Len(body) = Len(inventory))
    /\ [][pc = "device" /\ ~log'.found =>
              /\ body' = Append(body, [device |-> inventory[dev], kind |-> "not found"])
              /\ pc' = (IF dev < Len(inventory) THEN "device" ELSE "send")
              /\ dev' = dev + 1
              /\ db' = db]_vars

(* a run about to send: the first device's log was missing, the next got a table *)
C7_Witness ==
    /\ pc = "send"
    /\ Len(body) = 2
    /\ body[1].kind = "not found"
    /\ body[2].kind = "table"
    /\ exc.kind = "none"

(* C8: while format_log works through the devices, every device of the     *)
(* inventory has its table                                                 *)
C8_TablePerDevice ==
    pc \in {"device", "loop", "annotated"} =>
        \A p \in 1..Len(inventory) : TableName(inventory[p]) \in DOMAIN db

(* what a lookup for the p-th device of the inventory sees *)
View(p) ==
    IF TableName(inventory[p]) \in DOMAIN db THEN db[TableName(inventory[p])] ELSE <<>>

(* C9: the commit of one device's pass leaves what every other device of   *)
(* the inventory looks up as it was                                        *)
C9_IsolatedNamespaces ==
    [][pc = "annotated" =>
          \A q \in 1..Len(inventory) : q # dev => View(q)' = View(q)]_vars

(* the level without the attention marker, the identity without the prefix *)
Unmarked(level) ==
    IF EndsWith(level, ATTENTION_SUFFIX)
    THEN SubSeq(level, 1, Len(level) - Len(ATTENTION_SUFFIX)) ELSE level
Unprefixed(row) ==
    IF row[3] = PLACEHOLDER /\ StartsWith(row[4], ATTENTION_PREFIX)
    THEN SubSeq(row[4], Len(ATTENTION_PREFIX) + 1, Len(row[4])) ELSE row[4]

(* C10: the rows are in descending order of count, then level, then code,  *)
(* then message, the attention mark of a row playing no part               *)
C10_OrderIgnoresAttention ==
    \A p \in 1..(Len(column) - 1) :
        ~RowLess(<<column[p][1], Unmarked(column[p][2]), column[p][3], Unprefixed(column[p])>>,
                 <<column[p + 1][1], Unmarked(column[p + 1][2]), column[p + 1][3],
                   Unprefixed(column[p + 1])>>)

(* ---------------------------- the aggregate --------------------------- *)
(* the identity of a line: its code when it matches, else its text *)
Identity(ln) == IF ln.match THEN ln.code ELSE ln.line

LinesOf(lines, k) == {p \in 1..Len(lines) : Identity(lines[p]) = k}

FirstOf(lines, k) == CHOOSE p \in LinesOf(lines, k) : \A q \in LinesOf(lines, k) : p <= q

(* parse_log has returned the fold and no turn of the loop has run yet *)
JustAggregated == pc = "loop" /\ it.pos = 0

(* C11: the dict parse_log builds has one entry per identity of the file,  *)
(* the count of an entry is the number of lines of that identity, and the  *)
(* entry has the level and message of the first line of that identity when *)
(* that line matched, and the bare count when it did not                   *)
C11_OneEntryPerIdentity ==
    JustAggregated =>
        /\ Keys(result) = {Identity(log.lines[p]) : p \in 1..Len(log.lines)}
        /\ Used(result) = Len(result.ent)
        /\ \A p, q \in 1..Len(result.ent) : p # q => result.ent[p].key # result.ent[q].key
        /\ \A k \in Keys(result) :
               LET first == log.lines[FirstOf(log.lines, k)]
               IN  Get(result, k) =
                       IF first.match
                       THEN <<Cardinality(LinesOf(log.lines, k)), first.level, first.message>>
                       ELSE <<Cardinality(LinesOf(log.lines, k))>>

(* a code seen three times, a later line of it with another level *)
C11_Witness ==
    /\ JustAggregated
    /\ \E k \in Keys(result) :
           /\ Len(Get(result, k)) = 3
           /\ Get(result, k)[1] = 3
           /\ \E p \in LinesOf(log.lines, k) : log.lines[p].level # Get(result, k)[2]

(* ------------------------- failures of the store ---------------------- *)
(* the schema script of the run being started fails at a CREATE table *)
BootstrapFails ==
    /\ pc \in {"idle", "crashed"}
    /\ runs' = runs + 1
    /\ ~dbFile
    /\ ~ExecuteScript(db, create_schema(inventory')).ok

(* the SELECT of the turn of the loop at hand names a table that is absent *)
LookupFails == pc = "loop" /\ IterNext(result, it).kind = "key" /\ ~conn.exists

(* C12: a failure of the store in create_db or in a query of               *)
(* compare_with_db ends the run there: the device gets no section, and no  *)
(* report is sent until another run is started                             *)
C12_StoreFailureAborts ==
    /\ [](error = "OperationalError" => pc = "crashed" /\ ~sent /\ Len(body) < dev)
    /\ [][BootstrapFails \/ LookupFails =>
              /\ pc' = "crashed"
              /\ error' = "OperationalError"
              /\ ~sent'
              /\ body' = IF LookupFails THEN body ELSE <<>>]_vars

(* the lookup for the second device of the inventory failed after the      *)
(* first device got its section                                            *)
C12_Witness ==
    /\ pc = "crashed"
    /\ error = "OperationalError"
    /\ dev = 2
    /\ Len(body) = 1
    /\ log.found

(* ------------------------ the turns of the loop ----------------------- *)
(* the record of k was written by a turn of the pass at hand *)
WrittenInPass(k) ==
    /\ conn.exists
    /\ k \in DOMAIN conn.rows
    /\ k \in DOMAIN Held => conn.rows[k] # Held[k]

(* C13: the loop of compare_with_db ends without an exception, each turn   *)
(* takes a key of the aggregated dict that no earlier turn of the pass     *)
(* took, and when the loop has ended every key of the aggregated dict was  *)
(* taken and the dict has as many entries as it had                        *)
C13_EachIdentityOnce ==
    /\ [](error # "RuntimeError")
    /\ [](pc = "annotated" =>
              /\ \A k \in Keys(Aggregated) : k \in DOMAIN conn.rows
              /\ Used(compared) = Used(Aggregated))
    /\ [][pc = "loop" /\ pc' = "loop" /\ it' # it =>
              LET k == result.ent[it'.pos].key
              IN  k \in Keys(Aggregated) /\ ~WrittenInPass(k)]_vars

(* --------------------------- the time of a run ------------------------ *)
(* C14: two devices of one run handled one after the other, each with a    *)
(* log, are judged with the same now, and a record written by a turn of    *)
(* the loop carries that now                                               *)
C14_NowOncePerRun ==
    /\ [][pc = "device" /\ log.found /\ log'.found => now' = now]_vars
    /\ [][pc = "loop" /\ pc' = "loop" /\ it' # it =>
              conn'.rows[result.ent[it'.pos].key] = FormatSql(now)]_vars

(* C15: no step takes a table or a record away or puts an earlier time in  *)
(* a record, in the committed store and in the open transaction alike      *)
C15_StampNeverRegresses ==
    /\ [][\A t \in DOMAIN db : \A c \in DOMAIN db[t] :
              /\ t \in DOMAIN db'
              /\ c \in DOMAIN db'[t]
              /\ ~StrLess(db'[t][c], db[t][c])]_vars
    /\ [][pc = "loop" /\ conn.exists /\ conn'.exists =>
              \A c \in DOMAIN conn.rows :
                  c \in DOMAIN conn'.rows /\ ~StrLess(conn'.rows[c], conn.rows[c])]_vars

(* a later run has replaced the time of a record with a later one *)
C15_Witness ==
    /\ pc = "annotated"
    /\ \E c \in DOMAIN Held : c \in DOMAIN conn.rows /\ StrLess(Held[c], conn.rows[c])

(* ------------------------- a missing log file ------------------------- *)
(* C16: the turn of a device whose log file is missing opens no            *)
(* transaction and writes nothing, and what a lookup for that device sees  *)
(* stays as it was through the rest of the run                             *)
C16_MissingLogLeavesStore ==
    /\ [][pc = "device" /\ ~log'.found => db' = db /\ conn' = conn]_vars
    /\ [][\A p \in 1..Len(body) :
              pc \in {"loop", "annotated", "send"} /\ body[p].kind = "not found" =>
                  View(p)' = View(p)]_vars

(* --------------------------- suppressed codes ------------------------- *)
(* C17: when a device's pass is over and the exception list is loaded,     *)
(* every listed code of the device's log has a record stamped with a time  *)
(* of this pass; and a code whose record lies within the window, as the    *)
(* pass of a run a moment ago leaves it, ends the loop without the marker  *)
C17_SuppressedStillRefreshed ==
    /\ [][pc = "annotated" /\ exc'.kind = "list" =>
              \A c \in exc'.codes \cap CodedKeys(Aggregated) :
                  /\ c \in DOMAIN db'[TableName(inventory[dev])]
                  /\ \E t \in now..clock :
                         db'[TableName(inventory[dev])][c] = FormatSql(t)]_vars
    /\ [](pc = "annotated" =>
              \A c \in CodedKeys(Aggregated) :
                  c \in DOMAIN Held /\ TicksOf(Held[c]) >= now - Window =>
                      ~Flagged(compared, c))

====
